---- MODULE Spec2Model ----
(***************************************************************************)
(* QuantumChat backend: the connection hub (routers/websockets.py), the   *)
(* room-key distribution handlers (routers/rooms.py), the KEM functions    *)
(* and the private-key wrapping (quantum/encryption.py, routers/auth.py).  *)
(*                                                                         *)
(* SpecHub   models ConnectionManager together with the callers that drive *)
(*           it: the websocket endpoint (connect, then disconnect on       *)
(*           WebSocketDisconnect) and send_message (broadcast).  The event *)
(*           loop is single threaded, so every action is the code between  *)
(*           two awaits.                                                    *)
(* SpecHubApi is SpecHub plus calls of connect and disconnect made outside *)
(*           the endpoint, for any websocket; connect is two steps, around *)
(*           its await.                                                    *)
(* SpecRooms models create_room / join_room / leave_room / get_room_key    *)
(*           against the three tables they touch.                          *)
(* SpecCrypto models calls of the KEM functions, of the two wrap and the  *)
(*           two unwrap operations, and POST /register.                    *)
(***************************************************************************)
EXTENDS Integers, Sequences, FiniteSets, TLC

\* ------------------------------------------------------------------ bounds
NumConns == 2
NumRooms == 2
NumTasks == 2
NumUsers == 2
NumKeys  == 2
NumCallers == 1

Conns   == 1..NumConns      \* WebSocket objects, one per endpoint invocation
RoomIds == 1..NumRooms      \* room_id path parameter
Tasks   == 1..NumTasks      \* send_message requests, one broadcast each
Callers == 1..NumCallers    \* calls of manager.connect made outside the endpoint
Payloads == {"m1"}          \* the JSON text handed to broadcast

NoConn == 0

Users == 1..NumUsers        \* User.id of the accounts that call the handlers
Keys  == 1..NumKeys         \* values os.urandom(32) can return
RoomNames == {"a", "b"}     \* CreateRoomRequest.name

\* An opaque byte string: what it is and which key, user or secret it is.
Bytes(kind, n) == [kind |-> kind, n |-> n]

None == Bytes("none", 0)

VARIABLES
  active_connections,  \* ConnectionManager.active_connections: room_id -> list
  ws,                  \* per WebSocket: endpoint position and its room_id
  task,                \* per send_message request: position inside broadcast
  pruned,              \* history: connections pruned by a returned broadcast
  caller,              \* per outside call of connect: its position and arguments
  released,            \* history: connections removed by an outside disconnect
  rooms,               \* table rooms: Room.id is the index (autoincrement)
  user_room,           \* table user_room: set of <<user_id, room_id>>
  key_distributions,   \* table key_distributions: id is the index
  response,            \* what the latest handler call answered
  epochKey,            \* history: room_symmetric_key drawn for each Room.id
  module_globals,      \* namespace of quantum/encryption.py: name -> value
  kem_call,            \* how the latest call of a KEM function ended
  users,               \* table users: User.id is the index
  wrapped,             \* the latest wrapped private key, with what went in
  unwrap_call          \* how the latest call of an unwrap function ended

hubVars == <<active_connections, ws, task, pruned, caller, released>>

roomVars == <<rooms, user_room, key_distributions, response, epochKey>>

kemVars == <<module_globals, kem_call>>

vaultVars == <<users, wrapped, unwrap_call>>

cryptoVars == <<kemVars, vaultVars>>

vars == <<hubVars, caller, released, roomVars, cryptoVars>>

\* ------------------------------------------------------- list primitives
Range(s) == {s[i] : i \in DOMAIN s}

Contains(s, x) == \E i \in DOMAIN s : s[i] = x

\* Python list.remove(x): drops the FIRST occurrence of x (x is in s).
RemoveNothing(s, x) == s

Remove(s, x) ==
  LET i == CHOOSE k \in DOMAIN s : s[k] = x /\ \A j \in 1..(k-1) : s[j] # x
  IN  SubSeq(s, 1, i-1) \o SubSeq(s, i+1, Len(s))

\* dict that keeps key k with an empty list
KeepEmptyKey(d, k) == [d EXCEPT ![k] = <<>>]

\* dict without key k
DelKey(d, k) == [x \in (DOMAIN d) \ {k} |-> d[x]]

\* dict with d[k] = v (k may be new)
SetKey(d, k, v) == [x \in (DOMAIN d) \cup {k} |-> IF x = k THEN v ELSE d[x]]

\* ------------------------------------------- ConnectionManager.disconnect
\* Result of one call: the registry afterwards, whether list.remove raised
\* ValueError, and whether the room's list object was dropped from the dict.
disconnect(ac, websocket, room_id) ==
  IF room_id \in DOMAIN ac
  THEN IF ~Contains(ac[room_id], websocket)
       THEN [ac |-> ac, raised |-> TRUE, deleted |-> FALSE]
       ELSE LET l == Remove(ac[room_id], websocket)
            IN  IF l = <<>>
                THEN [ac |-> DelKey(ac, room_id), raised |-> FALSE,
                      deleted |-> TRUE]
                ELSE [ac |-> [ac EXCEPT ![room_id] = l], raised |-> FALSE,
                      deleted |-> FALSE]
  ELSE [ac |-> ac, raised |-> FALSE, deleted |-> FALSE]

\* ---------------------------------------------- ConnectionManager.connect
connect(ac, websocket, room_id) ==
  IF room_id \in DOMAIN ac
  THEN [ac EXCEPT ![room_id] = Append(@, websocket)]
  ELSE SetKey(ac, room_id, <<websocket>>)

\* -------------------------------------------- ConnectionManager.broadcast
IdleTask ==
  [pc |-> "idle", room |-> 0, message |-> "", live |-> FALSE, idx |-> 0,
   cur |-> NoConn, snapshot |-> <<>>, attempted |-> <<>>, failed |-> {},
   quiet |-> TRUE]

\* One turn of `for connection in self.active_connections[room_id]`: the list
\* iterator reads the live list object at its own index.  t.live is FALSE once
\* that list object has been emptied and dropped from the dict (a list created
\* later under the same key is another object).
Advance(t, ac) ==
  IF t.live /\ t.idx < Len(ac[t.room])
  THEN [t EXCEPT !.pc = "sending",
                 !.cur = ac[t.room][t.idx + 1],
                 !.idx = t.idx + 1,
                 !.attempted = Append(@, ac[t.room][t.idx + 1])]
  ELSE [t EXCEPT !.pc = "returned", !.cur = NoConn, !.live = FALSE]

\* What a registry mutation made by somebody else does to a broadcast that is
\* suspended in send_text on the same room.
Disturb(t, room_id, deleted) ==
  IF t.pc = "sending" /\ t.room = room_id
  THEN [t EXCEPT !.quiet = FALSE, !.live = t.live /\ ~deleted]
  ELSE t

\* History: the connections whose send_text raised inside a broadcast that
\* has returned to its caller.
Pruned(old, tasks) ==
  old \cup UNION {tasks[t].failed : t \in {u \in Tasks : tasks[u].pc = "returned"}}

\* ------------------------------------------------------------ hub actions
\* An outside call of connect that has not been made yet.
IdleCall == [pc |-> "idle", websocket |-> NoConn, room_id |-> 0]

InitHub ==
  /\ active_connections = <<>>
  /\ ws = [c \in Conns |-> [state |-> "connecting", room |-> 0]]
  /\ task = [t \in Tasks |-> IdleTask]
  /\ pruned = {}
  /\ caller = [k \in Callers |-> IdleCall]
  /\ released = {}

\* websocket_endpoint reaches manager.connect: accept() completes, the socket
\* is appended to the room's list.  Every endpoint invocation owns a new
\* WebSocket and calls connect once, so a socket is appended at most once in
\* its life; sockets are numbered in their order of arrival.
Connect(c, r) ==
  /\ ws[c].state = "connecting"
  /\ \A d \in Conns : d < c => ws[d].state # "connecting"
  /\ active_connections' = connect(active_connections, c, r)
  /\ ws' = [ws EXCEPT ![c] = [state |-> "open", room |-> r]]
  /\ task' = [t \in Tasks |-> Disturb(task[t], r, FALSE)]
  /\ UNCHANGED <<pruned, caller, released, roomVars, cryptoVars>>

\* manager.connect(websocket, room_id) called by a caller other than the
\* endpoint, for any websocket in any state: the coroutine runs to
\* `await websocket.accept()` (line 17) and is suspended there.  connect
\* reads nothing before that line.
CallConnect(k, c, r) ==
  /\ caller[k].pc = "idle"
  /\ \A j \in Callers : j < k => caller[j].pc # "idle"
  /\ caller' = [caller EXCEPT ![k] =
                  [pc |-> "awaiting", websocket |-> c, room_id |-> r]]
  /\ UNCHANGED <<active_connections, ws, task, pruned, released, roomVars, cryptoVars>>

\* accept() returns to the suspended call, which resumes at line 18: the
\* websocket is appended to the list of room_id as that list is now, with no
\* test of whether it is already registered.
CallAcceptReturns(k) ==
  /\ caller[k].pc = "awaiting"
  /\ active_connections' =
       connect(active_connections, caller[k].websocket, caller[k].room_id)
  /\ task' = [t \in Tasks |-> Disturb(task[t], caller[k].room_id, FALSE)]
  /\ caller' = [caller EXCEPT ![k] = [IdleCall EXCEPT !.pc = "done"]]
  /\ UNCHANGED <<ws, pruned, released, roomVars, cryptoVars>>

\* accept() raises in the suspended call: connect never reaches the append.
CallAcceptRaises(k) ==
  /\ caller[k].pc = "awaiting"
  /\ caller' = [caller EXCEPT ![k] = [IdleCall EXCEPT !.pc = "done"]]
  /\ UNCHANGED <<active_connections, ws, task, pruned, released, roomVars, cryptoVars>>

\* manager.disconnect(websocket, room_id) called from outside the endpoint:
\* no await, so one step.  A call that raises ValueError or finds no list
\* leaves the registry as it was.
CallDisconnect(c, r) ==
  LET d == disconnect(active_connections, c, r)
  IN  /\ active_connections' = d.ac
      /\ task' = IF d.ac = active_connections THEN task
                 ELSE [t \in Tasks |-> Disturb(task[t], r, d.deleted)]
      /\ released' = IF d.ac = active_connections THEN released
                     ELSE released \cup {c}
      /\ UNCHANGED <<ws, pruned, caller, roomVars, cryptoVars>>

\* websocket.accept() raises: connect never reaches the append.
AcceptFails(c) ==
  /\ ws[c].state = "connecting"
  /\ \A d \in Conns : d < c => ws[d].state # "connecting"
  /\ ws' = [ws EXCEPT ![c] = [state |-> "closed", room |-> 0]]
  /\ UNCHANGED <<active_connections, task, pruned, caller, released, roomVars, cryptoVars>>

\* receive_text raises WebSocketDisconnect: the endpoint calls
\* manager.disconnect(websocket, room_id) and ends ("closed"), or ends with
\* the ValueError that disconnect raised ("crashed").
EndpointDisconnect(c) ==
  /\ ws[c].state = "open"
  /\ LET r == ws[c].room
         d == disconnect(active_connections, c, r)
     IN  /\ active_connections' = d.ac
         /\ task' = [t \in Tasks |-> Disturb(task[t], r, d.deleted)]
         /\ ws' = [ws EXCEPT ![c] =
                     [state |-> IF d.raised THEN "crashed" ELSE "closed",
                      room |-> 0]]
  /\ UNCHANGED <<pruned, caller, released, roomVars, cryptoVars>>

\* send_message has stored the message and awaits manager.broadcast: the
\* membership test on the dict, the iterator, and the first send_text.
\* The request ends in "returned" (broadcast returned, send_message builds
\* its MessageResponse) or in "raised" (the exception leaves send_message).
\* Requests are numbered in their order of arrival.  snapshot, attempted,
\* failed and quiet are history fields the code does not keep.
Broadcast(t, message, r) ==
  /\ task[t].pc = "idle"
  /\ \A u \in Tasks : u < t => task[u].pc # "idle"
  /\ LET t0 == [IdleTask EXCEPT !.room = r, !.message = message]
     IN  task' = [task EXCEPT ![t] =
           IF r \in DOMAIN active_connections
           THEN Advance([t0 EXCEPT !.live = TRUE,
                                   !.snapshot = active_connections[r]],
                        active_connections)
           ELSE [t0 EXCEPT !.pc = "returned"]]
  /\ pruned' = Pruned(pruned, task')
  /\ UNCHANGED <<active_connections, ws, caller, released, roomVars, cryptoVars>>

\* send_text returns: the loop goes on to the next connection.
SendOk(t) ==
  /\ task[t].pc = "sending"
  /\ task' = [task EXCEPT ![t] = Advance(task[t], active_connections)]
  /\ pruned' = Pruned(pruned, task')
  /\ UNCHANGED <<active_connections, ws, caller, released, roomVars, cryptoVars>>

\* send_text raises: the bare except calls self.disconnect(connection,
\* room_id); a ValueError from list.remove leaves broadcast through the
\* except block, otherwise the loop goes on.
SendFails(t) ==
  /\ task[t].pc = "sending"
  /\ LET me == task[t]
         d  == disconnect(active_connections, me.cur, me.room)
         t1 == [me EXCEPT !.failed = @ \cup {me.cur},
                          !.live = me.live /\ ~d.deleted]
     IN  /\ active_connections' = d.ac
         /\ task' = [u \in Tasks |->
              IF u = t
              THEN IF d.raised
                   THEN [t1 EXCEPT !.pc = "raised", !.cur = NoConn,
                                   !.live = FALSE]
                   ELSE Advance(t1, d.ac)
              ELSE Disturb(task[u], me.room, d.deleted)]
  /\ pruned' = Pruned(pruned, task')
  /\ UNCHANGED <<ws, caller, released, roomVars, cryptoVars>>

\* ------------------------------------------------- quantum/encryption.py
\* base64.b64encode / b64decode on opaque byte strings.
b64encode(bytes) == <<"b64", bytes>>

b64decode(text) == text[2]

\* ---- name resolution inside a function body
\* The local names of each KEM function (its co_varnames): its parameters
\* and every name its body binds by assignment, `with ... as` or
\* `except ... as`.  Python compiles such a name as a local of the function
\* unless a `global` statement says otherwise, and none of the three has one.
LocalNames(fn) ==
  IF fn = "generate_kyber_keypair"
  THEN {"KEM_AVAILABLE", "kemalg", "server_kem", "public_key",
        "private_key", "e"}
  ELSE IF fn = "encapsulate_key"
  THEN {"public_key", "KEM_AVAILABLE", "kemalg", "client_kem",
        "ciphertext", "shared_secret", "e"}
  ELSE {"private_key", "ciphertext", "KEM_AVAILABLE", "kemalg",
        "server_kem", "shared_secret", "e", "decoded"}

\* Name lookup as if the body declared `global KEM_AVAILABLE`.
LoadGlobal(fn, name, frame, globals) ==
  [raised |-> FALSE, value |-> globals[name]]

\* Reading `name` in the body of fn whose local frame is `frame`: a local
\* name is looked up in the frame only and raises UnboundLocalError when the
\* frame has no value for it yet; any other name is looked up in the module.
LoadName(fn, name, frame, globals) ==
  IF name \in LocalNames(fn)
  THEN IF name \in DOMAIN frame
       THEN [raised |-> FALSE, value |-> frame[name]]
       ELSE [raised |-> TRUE, value |-> FALSE]
  ELSE [raised |-> FALSE, value |-> globals[name]]

\* `if KEM_AVAILABLE:`, the first statement of each of the three KEM
\* functions; the frame holds only the arguments when it runs.
ReadFlag(fn, frame, globals) == LoadName(fn, "KEM_AVAILABLE", frame, globals)

\* How a call ended: the exception that left the function ("" for a return)
\* and the returned tuple.
Returned(value) == [raised |-> FALSE, error |-> "", value |-> value]

Raised(error) == [raised |-> TRUE, error |-> error, value |-> <<>>]

\* generate_kyber_keypair().  oqs_raises says whether the oqs calls of the
\* try block raise; r1 and r2 are what the generator and os.urandom draw.
generate_kyber_keypair(globals, oqs_raises, r1, r2) ==
  LET flag == ReadFlag("generate_kyber_keypair", <<>>, globals)
  IN  IF flag.raised THEN Raised("UnboundLocalError")
      ELSE IF flag.value /\ ~oqs_raises
      THEN Returned(<<Bytes("kyber_pk", r1), Bytes("kyber_sk", r1)>>)
      ELSE Returned(<<Bytes("urandom", r1), Bytes("urandom", r2)>>)

\* encapsulate_key(public_key) with the same inputs: returns
\* (shared_secret, ciphertext).
encapsulate_key_run(public_key, globals, oqs_raises, r1, r2) ==
  LET flag == ReadFlag("encapsulate_key", [public_key |-> public_key],
                       globals)
  IN  IF flag.raised THEN Raised("UnboundLocalError")
      ELSE IF flag.value /\ ~oqs_raises
      THEN Returned(<<Bytes("ss", public_key.n),
                      Bytes("kem", public_key.n)>>)
      ELSE LET shared_secret == Bytes("urandom", r1)
           IN  Returned(<<shared_secret,
                          b64encode(<<shared_secret, Bytes("urandom", r2)>>)>>)

\* decapsulate_key(private_key, ciphertext).  ciphertext is <<"b64", parts>>
\* for the placeholder text of the fallback and <<"raw", bytes>> for a Kyber
\* ciphertext, which base64.b64decode rejects.
decapsulate_key(private_key, ciphertext, globals, oqs_raises, r1) ==
  LET flag == ReadFlag("decapsulate_key",
                       [private_key |-> private_key,
                        ciphertext |-> ciphertext], globals)
  IN  IF flag.raised THEN Raised("UnboundLocalError")
      ELSE IF flag.value /\ ~oqs_raises /\ ciphertext[1] = "raw"
      THEN Returned(<<Bytes("ss", ciphertext[2].n)>>)
      ELSE IF ciphertext[1] = "b64"
      THEN Returned(<<b64decode(ciphertext)[1]>>)
      ELSE Returned(<<Bytes("urandom", r1)>>)

\* encapsulate_key(public_key) as the room handlers see it.  The assignment
\* `KEM_AVAILABLE = False` in the except branch makes KEM_AVAILABLE a local
\* name of the function, so the first statement, `if KEM_AVAILABLE:`, reads
\* an unbound local and raises UnboundLocalError on every call: the outcome
\* does not depend on the module flag, on oqs or on the random draws.
encapsulate_key(public_key) ==
  LET r == encapsulate_key_run(public_key, [KEM_AVAILABLE |-> TRUE],
                               FALSE, 1, 1)
  IN  IF r.raised
      THEN [raised |-> TRUE, shared_secret |-> None, ciphertext |-> None]
      ELSE [raised |-> FALSE, shared_secret |-> r.value[1],
            ciphertext |-> r.value[2]]

\* ---- KEM actions
NoCall ==
  [op |-> "none", oqs_raises |-> FALSE, raised |-> FALSE, error |-> "",
   value |-> <<>>]

Call(op, oqs_raises, r) ==
  [op |-> op, oqs_raises |-> oqs_raises, raised |-> r.raised,
   error |-> r.error, value |-> r.value]

InitKem ==
  /\ module_globals = <<>>
  /\ kem_call = NoCall

\* Lines 12-18, run once when the module is first imported.
ImportEncryption(oqs_installed) ==
  /\ module_globals = <<>>
  /\ module_globals' = [KEM_AVAILABLE |-> oqs_installed]
  /\ UNCHANGED <<kem_call, vaultVars, hubVars, roomVars>>

GenerateKeypair(oqs_raises, r1, r2) ==
  /\ module_globals # <<>>
  /\ kem_call' = Call("generate_kyber_keypair", oqs_raises,
                      generate_kyber_keypair(module_globals, oqs_raises,
                                             r1, r2))
  /\ UNCHANGED <<module_globals, vaultVars, hubVars, roomVars>>

EncapsulateKey(public_key, oqs_raises, r1, r2) ==
  /\ module_globals # <<>>
  /\ kem_call' = Call("encapsulate_key", oqs_raises,
                      encapsulate_key_run(public_key, module_globals,
                                          oqs_raises, r1, r2))
  /\ UNCHANGED <<module_globals, vaultVars, hubVars, roomVars>>

Ciphertexts ==
  {<<"raw", Bytes("kem", n)>> : n \in Keys}
    \cup {b64encode(<<Bytes("urandom", a), Bytes("urandom", 1)>>) :
            a \in Keys}

DecapsulateKey(private_key, ciphertext, oqs_raises, r1) ==
  /\ module_globals # <<>>
  /\ kem_call' = Call("decapsulate_key", oqs_raises,
                      decapsulate_key(private_key, ciphertext,
                                      module_globals, oqs_raises, r1))
  /\ UNCHANGED <<module_globals, vaultVars, hubVars, roomVars>>

\* ------------------------------------------------------- routers/rooms.py
\* User.kyber_public_key of account u (base64 text).
kyber_public_key(u) == b64encode(Bytes("pk", u))

\* Rows of key_distributions for room_id owned by somebody other than user_id
\* (the filter of join_room's query).
OtherKeyDist(room_id, user_id) ==
  {i \in DOMAIN key_distributions :
     /\ key_distributions[i].room_id = room_id
     /\ key_distributions[i].user_id # user_id}

\* The answer of a handler: HTTP status and, for get_room_key, the blob.
Resp(op, user, room_id, status, body) ==
  [op |-> op, user |-> user, room |-> room_id, status |-> status,
   body |-> body]

InitRooms ==
  /\ rooms = <<>>
  /\ user_room = {}
  /\ key_distributions = <<>>
  /\ response = Resp("none", 0, 0, 0, <<>>)
  /\ epochKey = <<>>

\* POST /rooms/.  The Room row is committed first; the membership insert and
\* the KeyDistribution row belong to the transaction committed at the end, which
\* the session discards when the handler leaves with an exception.
CreateRoom(u, name, k) ==
  /\ UNCHANGED <<hubVars, cryptoVars>>
  /\ Len(rooms) < NumRooms
  /\ LET id == Len(rooms) + 1
         room_symmetric_key == Bytes("key", k)
         creator_public_key == b64decode(kyber_public_key(u))
         kem == encapsulate_key(creator_public_key)
         key_data == b64encode(<<room_symmetric_key, kem.ciphertext>>)
     IN  /\ rooms' = Append(rooms, [name |-> name,
                                    symmetric_key_encrypted |-> None])
         /\ epochKey' = Append(epochKey, room_symmetric_key)
         /\ IF kem.raised
            THEN /\ UNCHANGED <<user_room, key_distributions>>
                 /\ response' = Resp("create_room", u, id, 500, <<>>)
            ELSE /\ user_room' = user_room \cup {<<u, id>>}
                 /\ key_distributions' =
                      Append(key_distributions,
                             [room_id |-> id, user_id |-> u,
                              encapsulated_key |-> key_data])
                 /\ response' = Resp("create_room", u, id, 200, <<>>)

\* POST /rooms/{room_id}/join
JoinRoom(u, room_id) ==
  /\ UNCHANGED <<hubVars, cryptoVars, rooms, epochKey>>
  /\ IF room_id \notin DOMAIN rooms
     THEN /\ UNCHANGED <<user_room, key_distributions>>
          /\ response' = Resp("join_room", u, room_id, 404, <<>>)
     ELSE IF <<u, room_id>> \in user_room
     THEN /\ UNCHANGED <<user_room, key_distributions>>
          /\ response' = Resp("join_room", u, room_id, 400, <<>>)
     ELSE IF OtherKeyDist(room_id, u) = {}
     THEN /\ UNCHANGED <<user_room, key_distributions>>
          /\ response' = Resp("join_room", u, room_id, 500, <<>>)
     ELSE \E i \in OtherKeyDist(room_id, u) :
            LET creator_key_data ==
                  b64decode(key_distributions[i].encapsulated_key)
                new_user_key_data == creator_key_data
            IN  /\ user_room' = user_room \cup {<<u, room_id>>}
                /\ key_distributions' =
                     Append(key_distributions,
                            [room_id |-> room_id, user_id |-> u,
                             encapsulated_key |->
                               b64encode(new_user_key_data)])
                /\ response' = Resp("join_room", u, room_id, 200, <<>>)

\* POST /rooms/{room_id}/leave
LeaveRoom(u, room_id) ==
  /\ UNCHANGED <<hubVars, cryptoVars, rooms, epochKey, key_distributions>>
  /\ IF room_id \notin DOMAIN rooms \/ <<u, room_id>> \notin user_room
     THEN /\ UNCHANGED user_room
          /\ response' = Resp("leave_room", u, room_id, 404, <<>>)
     ELSE /\ user_room' = user_room \ {<<u, room_id>>}
          /\ response' = Resp("leave_room", u, room_id, 200, <<>>)

\* GET /rooms/{room_id}/key
GetRoomKey(u, room_id) ==
  /\ UNCHANGED <<hubVars, cryptoVars, rooms, epochKey, key_distributions, user_room>>
  /\ LET mine == {i \in DOMAIN key_distributions :
                    /\ key_distributions[i].room_id = room_id
                    /\ key_distributions[i].user_id = u}
     IN  IF room_id \notin DOMAIN rooms \/ <<u, room_id>> \notin user_room
         THEN response' = Resp("get_room_key", u, room_id, 403, <<>>)
         ELSE IF mine = {}
         THEN response' = Resp("get_room_key", u, room_id, 404, <<>>)
         ELSE \E i \in mine :
                response' =
                  Resp("get_room_key", u, room_id, 200,
                       <<key_distributions[i].encapsulated_key>>)

\* ------------------------------------------------ private-key wrapping
\* Byte strings of the wrapping code are sequences of chunks.  A chunk is a
\* run of `len` bytes starting at offset `off` of one value: random bytes or a
\* private key (kind, n), or the output of a cipher (data, key, iv).
NoKey == [password |-> "", salt |-> <<>>, iterations |-> 0]

Chunk(kind, n, data, key, iv, len) ==
  [kind |-> kind, n |-> n, data |-> data, key |-> key, iv |-> iv,
   off |-> 0, len |-> len]

SaltLen == 16
IvLen == 12
PrivateKeyLen == 32
GcmIterations == 100000
FernetIterations == 200000
GcmMinIvLen == 8
TagLen == 16

\* os.urandom(len), draw n
urandom(len, n) == <<Chunk("urandom", n, <<>>, NoKey, <<>>, len)>>

\* the bytes of a private key
AsBytes(private_key) ==
  <<Chunk(private_key.kind, private_key.n, <<>>, NoKey, <<>>, PrivateKeyLen)>>

RECURSIVE Size(_)
\* len(bytes)
Size(bytes) ==
  IF bytes = <<>> THEN 0 ELSE Head(bytes).len + Size(Tail(bytes))

RECURSIVE Drop(_, _)
\* bytes[n:]
Drop(bytes, n) ==
  IF bytes = <<>> THEN <<>>
  ELSE IF n = 0 THEN bytes
  ELSE IF n >= Head(bytes).len
  THEN Drop(Tail(bytes), n - Head(bytes).len)
  ELSE <<[Head(bytes) EXCEPT !.off = @ + n, !.len = @ - n]>> \o Tail(bytes)

RECURSIVE Take(_, _)
\* bytes[:n]
Take(bytes, n) ==
  IF bytes = <<>> \/ n = 0 THEN <<>>
  ELSE IF n >= Head(bytes).len
  THEN <<Head(bytes)>> \o Take(Tail(bytes), n - Head(bytes).len)
  ELSE <<[Head(bytes) EXCEPT !.len = n]>>

\* bytes[a:b]
Slice(bytes, a, b) == Take(Drop(bytes, a), b - a)

\* The first n characters of a base64 text.
CutText(text, n) == <<"b64cut", b64decode(text), n>>

\* base64.b64decode(text) with its errors.  Of a cut text, `data` characters
\* are alphabet characters and the rest is `=` padding; binascii decodes the
\* whole groups and rejects an incomplete last group, by one text when a
\* single character is left over and by another when the padding is short.
b64decode_run(text) ==
  IF text[1] = "b64"
  THEN [raised |-> FALSE, text |-> "", value |-> b64decode(text)]
  ELSE LET bytes == text[2]
           all == (4 * Size(bytes) + 2) \div 3
           data == IF text[3] < all THEN text[3] ELSE all
           pad == text[3] - data
           left == data % 4
       IN  IF left = 1
           THEN [raised |-> TRUE, value |-> <<>>,
                 text |-> "Invalid base64-encoded string: number of data characters ("
                            \o ToString(data)
                            \o ") cannot be 1 more than a multiple of 4"]
           ELSE IF (left = 2 /\ pad < 2) \/ (left = 3 /\ pad < 1)
           THEN [raised |-> TRUE, value |-> <<>>,
                 text |-> "Incorrect padding"]
           ELSE [raised |-> FALSE, text |-> "",
                 value |-> Take(bytes, 3 * (data \div 4)
                                         + (IF left = 0 THEN 0 ELSE left - 1))]

\* PBKDF2HMAC(SHA256, length=32, salt, iterations).derive(password)
PBKDF2HMAC(password, salt, iterations) ==
  [password |-> password, salt |-> salt, iterations |-> iterations]

\* AES-GCM encryptor: ciphertext and tag of `data` under key and iv
GcmCiphertext(key, iv, data) ==
  <<Chunk("gcm_ciphertext", 0, data, key, iv, Size(data))>>

GcmTag(key, iv, data) == <<Chunk("gcm_tag", 0, data, key, iv, TagLen)>>

\* Cipher(AES(key), GCM(iv, tag)).decryptor(), update and finalize: the
\* constructor of GCM rejects a short iv and a short tag with a ValueError
\* that says which; finalize raises InvalidTag, whose text is empty, unless
\* ciphertext and tag are the whole output of one encryption under this key
\* and iv.
GcmDecrypt(key, iv, tag, ciphertext) ==
  IF Size(iv) < GcmMinIvLen
  THEN [raised |-> TRUE, value |-> <<>>,
        text |-> "initialization_vector must be between 8 and 128 bytes (64 and 1024 bits)."]
  ELSE IF Size(tag) < TagLen
  THEN [raised |-> TRUE, value |-> <<>>,
        text |-> "Authentication tag must be 16 bytes or longer."]
  ELSE IF /\ Len(ciphertext) = 1
          /\ ciphertext[1].kind = "gcm_ciphertext"
          /\ ciphertext = GcmCiphertext(key, iv, ciphertext[1].data)
          /\ tag = GcmTag(key, iv, ciphertext[1].data)
  THEN [raised |-> FALSE, value |-> ciphertext[1].data, text |-> ""]
  ELSE [raised |-> TRUE, value |-> <<>>, text |-> ""]

\* Fernet(urlsafe_b64encode(key)).encrypt(data): version, time, iv, padded
\* AES-CBC ciphertext and HMAC, as urlsafe base64 text.  n is the drawn iv.
FernetToken(key, data, n) ==
  <<Chunk("fernet_token", n, data, key, <<>>,
          4 * ((1 + 8 + 16 + 16 * ((Size(data) \div 16) + 1) + 32 + 2) \div 3))>>

\* Fernet(key).decrypt(token): InvalidToken unless token is a whole token
\* made under this key.
FernetDecrypt(key, token) ==
  IF /\ Len(token) = 1
     /\ token[1].kind = "fernet_token"
     /\ token = FernetToken(key, token[1].data, token[1].n)
  THEN [raised |-> FALSE, value |-> token[1].data, text |-> ""]
  ELSE [raised |-> TRUE, value |-> <<>>, text |-> ""]

\* quantum/encryption.py encrypt_private_key(private_key, password); r_salt
\* and r_iv are the two os.urandom draws.
encrypt_private_key(private_key, password, r_salt, r_iv) ==
  LET salt == urandom(SaltLen, r_salt)
      key == PBKDF2HMAC(password, salt, GcmIterations)
      iv == urandom(IvLen, r_iv)
      ciphertext == GcmCiphertext(key, iv, private_key)
      tag == GcmTag(key, iv, private_key)
  IN  b64encode(salt \o iv \o tag \o ciphertext)

\* How an unwrap call ended.
Unwrapped(value) ==
  [raised |-> FALSE, error |-> "", message |-> "", value |-> value]

UnwrapError(error, message) ==
  [raised |-> TRUE, error |-> error, message |-> message, value |-> <<>>]

\* f"Private key decryption failed: {e}"
FailedMessage(text) == "Private key decryption failed: " \o text

\* quantum/encryption.py decrypt_private_key(encrypted_key, password)
decrypt_private_key(encrypted_key, password) ==
  LET d == b64decode_run(encrypted_key)
  IN  IF d.raised THEN UnwrapError("ValueError", FailedMessage(d.text))
      ELSE LET decoded == d.value
               salt == Slice(decoded, 0, SaltLen)
               iv == Slice(decoded, SaltLen, SaltLen + IvLen)
               tag == Slice(decoded, SaltLen + IvLen,
                            SaltLen + IvLen + TagLen)
               ciphertext == Drop(decoded, SaltLen + IvLen + TagLen)
               key == PBKDF2HMAC(password, salt, GcmIterations)
               r == GcmDecrypt(key, iv, tag, ciphertext)
           IN  IF r.raised
               THEN UnwrapError("ValueError", FailedMessage(r.text))
               ELSE Unwrapped(r.value)

\* routers/auth.py register, lines 47-61: the wrapping of the new private key
register_wrap(private_key, password, r_salt, r_iv) ==
  LET salt == urandom(SaltLen, r_salt)
      key == PBKDF2HMAC(password, salt, FernetIterations)
      private_key_encrypted == FernetToken(key, private_key, r_iv)
  IN  b64encode(salt \o private_key_encrypted)

\* routers/auth.py decrypt_private_key(password, encrypted_data)
auth_decrypt_private_key(password, encrypted_data) ==
  LET detail ==
        "Failed to decrypt private key - invalid password or corrupted data"
      d == b64decode_run(encrypted_data)
  IN  IF d.raised THEN UnwrapError("HTTPException 400", detail)
      ELSE LET encrypted_bytes == d.value
               salt == Slice(encrypted_bytes, 0, SaltLen)
               encrypted_key == Drop(encrypted_bytes, SaltLen)
               key == PBKDF2HMAC(password, salt, FernetIterations)
               r == FernetDecrypt(key, encrypted_key)
           IN  IF r.raised THEN UnwrapError("HTTPException 400", detail)
               ELSE Unwrapped(r.value)

\* ---- what a caller can hand to an unwrap function
Passwords == {"p1", "p2"}
PrivateKeys == {Bytes("sk", n) : n \in Keys}
Usernames == {"alice", "bob"}

\* numbers of characters a blob text is cut to: nothing, whole groups that
\* end inside the iv, the tag and the ciphertext of a GCM blob, and cuts
\* that leave one or two characters of a group
CutLens == {0, 5, 28, 40, 64, 101, 102}

\* the blob with one byte of its last chunk changed
Corrupted(text) ==
  LET bytes == b64decode(text)
  IN  b64encode(SubSeq(bytes, 1, Len(bytes) - 1)
                  \o <<[bytes[Len(bytes)] EXCEPT !.kind = "garbage"]>>)

\* the ways a blob is damaged, each with the length it is cut to
Tampers ==
  {<<"intact", 0>>, <<"corrupted", 0>>}
    \cup {<<"truncated", n>> : n \in CutLens}

Tamper(how, n, text) ==
  IF how = "intact" THEN text
  ELSE IF how = "corrupted" THEN Corrupted(text)
  ELSE CutText(text, n)

\* ---- vault actions
NoUnwrap ==
  [fn |-> "none", by |-> "none", tamper |-> "intact", pw_ok |-> TRUE,
   round_trip |-> FALSE, raised |-> FALSE, error |-> "", message |-> "",
   value |-> <<>>]

InitVault ==
  /\ users = <<>>
  /\ wrapped = [by |-> "none", blob |-> b64encode(<<>>), K |-> <<>>, P |-> ""]
  /\ unwrap_call = NoUnwrap

\* a call of encryption.encrypt_private_key
EncryptPrivateKey(private_key, password, r_salt, r_iv) ==
  /\ wrapped' = [by |-> "encrypt_private_key",
                 blob |-> encrypt_private_key(AsBytes(private_key), password,
                                              r_salt, r_iv),
                 K |-> AsBytes(private_key), P |-> password]
  /\ UNCHANGED <<users, unwrap_call, kemVars, hubVars, roomVars>>

\* POST /register.  The e-mail address is the username's, so the two lookups
\* of lines 35-41 agree.  An exception that is not an HTTPException leaves
\* the handler and is answered 500; the session is never committed.
Register(username, password, oqs_raises) ==
  /\ module_globals # <<>>
  /\ UNCHANGED <<unwrap_call, kemVars, hubVars, rooms, user_room,
                 key_distributions, epochKey>>
  /\ IF \E i \in DOMAIN users : users[i].username = username
     THEN /\ response' = Resp("register", 0, 0, 400, <<>>)
          /\ UNCHANGED <<users, wrapped>>
     ELSE IF ReadFlag("generate_kyber_keypair", <<>>, module_globals).raised
     THEN \* line 44 raises before any byte is drawn
          /\ response' = Resp("register", 0, 0, 500, <<>>)
          /\ UNCHANGED <<users, wrapped>>
     ELSE \E r1, r2, r_salt, r_iv \in Keys :
            LET pair == generate_kyber_keypair(module_globals, oqs_raises,
                                               r1, r2)
                private_key == AsBytes(pair.value[2])
                blob == register_wrap(private_key, password, r_salt, r_iv)
            IN  /\ users' =
                     Append(users,
                            [username |-> username,
                             kyber_public_key |-> b64encode(pair.value[1]),
                             kyber_private_key_encrypted |-> blob])
                /\ wrapped' = [by |-> "register", blob |-> blob,
                               K |-> private_key, P |-> password]
                /\ response' = Resp("register", Len(users) + 1, 0,
                                    200, <<>>)

UnwrapCall(fn, how, password, r) ==
  [fn |-> fn, by |-> wrapped.by, tamper |-> how,
   pw_ok |-> (password = wrapped.P),
   round_trip |-> (~r.raised /\ r.value = wrapped.K),
   raised |-> r.raised, error |-> r.error, message |-> r.message,
   value |-> r.value]

\* a call of encryption.decrypt_private_key on the latest blob, as stored or
\* damaged on the way
DecryptPrivateKey(how, n, password) ==
  /\ wrapped.by # "none"
  /\ unwrap_call' =
       UnwrapCall("encryption.decrypt_private_key", how, password,
                  decrypt_private_key(Tamper(how, n, wrapped.blob), password))
  /\ UNCHANGED <<users, wrapped, kemVars, hubVars, roomVars>>

\* a call of routers/auth.decrypt_private_key on the latest blob
AuthDecryptPrivateKey(how, n, password) ==
  /\ wrapped.by # "none"
  /\ unwrap_call' =
       UnwrapCall("auth.decrypt_private_key", how, password,
                  auth_decrypt_private_key(password,
                                           Tamper(how, n, wrapped.blob)))
  /\ UNCHANGED <<users, wrapped, kemVars, hubVars, roomVars>>

Init == InitHub /\ InitRooms /\ InitKem /\ InitVault

NextHub ==
  \/ \E c \in Conns, r \in RoomIds : Connect(c, r)
  \/ \E c \in Conns : AcceptFails(c)
  \/ \E c \in Conns : EndpointDisconnect(c)
  \/ \E t \in Tasks, m \in Payloads, r \in RoomIds : Broadcast(t, m, r)
  \/ \E t \in Tasks : SendOk(t)
  \/ \E t \in Tasks : SendFails(t)

SpecHub == Init /\ [][NextHub]_vars

\* The hub with one more kind of caller: the endpoint and send_message as
\* above, and connect and disconnect called from outside the endpoint.
NextHubApi ==
  \/ NextHub
  \/ \E k \in Callers, c \in Conns, r \in RoomIds : CallConnect(k, c, r)
  \/ \E k \in Callers : CallAcceptReturns(k)
  \/ \E k \in Callers : CallAcceptRaises(k)
  \/ \E c \in Conns, r \in RoomIds : CallDisconnect(c, r)

SpecHubApi == Init /\ [][NextHubApi]_vars

NextRooms ==
  \/ \E u \in Users, n \in RoomNames, k \in Keys : CreateRoom(u, n, k)
  \/ \E u \in Users, r \in RoomIds : JoinRoom(u, r)
  \/ \E u \in Users, r \in RoomIds : LeaveRoom(u, r)
  \/ \E u \in Users, r \in RoomIds : GetRoomKey(u, r)

SpecRooms == Init /\ [][NextRooms]_vars

NextCrypto ==
  \/ \E b \in BOOLEAN : ImportEncryption(b)
  \/ \E b \in BOOLEAN, r1, r2 \in Keys : GenerateKeypair(b, r1, r2)
  \/ \E u \in Users, b \in BOOLEAN, r1, r2 \in Keys :
       EncapsulateKey(b64decode(kyber_public_key(u)), b, r1, r2)
  \/ \E k \in PrivateKeys, c \in Ciphertexts, b \in BOOLEAN, r1 \in Keys :
       DecapsulateKey(k, c, b, r1)
  \/ \E k \in PrivateKeys, p \in Passwords, r1, r2 \in Keys :
       EncryptPrivateKey(k, p, r1, r2)
  \/ \E n \in Usernames, p \in Passwords, b \in BOOLEAN : Register(n, p, b)
  \/ \E t \in Tampers, p \in Passwords : DecryptPrivateKey(t[1], t[2], p)
  \/ \E t \in Tampers, p \in Passwords :
       AuthDecryptPrivateKey(t[1], t[2], p)

SpecCrypto == Init /\ [][NextCrypto]_vars

\* The connections currently in room r's list.
Registered(r) ==
  IF r \in DOMAIN active_connections THEN Range(active_connections[r]) ELSE {}

\* How many sends a broadcast has started on connection c.
Attempts(t, c) == Cardinality({i \in DOMAIN t.attempted : t.attempted[i] = c})

\* ------------------------------------------------------------ hub claims

\* C1: a broadcast with no connect or disconnect interleaved attempts delivery
\* exactly once to each connection that was registered when it started,
\* whichever of the sends fail.
C1_FanOutExactlyOnce ==
  \A t \in Tasks :
    (task[t].pc = "returned" /\ task[t].quiet)
      => /\ \A c \in Range(task[t].snapshot) : Attempts(task[t], c) = 1
         /\ Range(task[t].attempted) \subseteq Range(task[t].snapshot)

\* C2: once a broadcast has returned, every connection whose send raised in it
\* is absent from the room's list, and no send is started afterwards on a
\* connection pruned by a returned broadcast.
C2_PrunedStayAbsent ==
  /\ [](\A t \in Tasks :
          task[t].pc = "returned"
            => task[t].failed \cap Registered(task[t].room) = {})
  /\ [][\A t \in Tasks :
          (task'[t].pc = "sending"
             /\ Len(task'[t].attempted) > Len(task[t].attempted))
            => task'[t].cur \notin pruned]_vars

\* C2 witness: a broadcast returned after pruning a connection, and a later
\* broadcast is sending to another connection of that room.
C2_Witness ==
  \E t, u \in Tasks :
    /\ t < u
    /\ task[t].pc = "returned" /\ task[t].failed # {}
    /\ task[t].failed \subseteq pruned
    /\ task[u].pc = "sending" /\ task[u].room = task[t].room
    /\ Range(task[u].snapshot) \cap task[t].failed = {}

\* C3: no broadcast ends by raising to send_message, under any interleaving
\* with connect, disconnect and other broadcasts.
C3_BroadcastNeverRaises ==
  \A t \in Tasks : task[t].pc # "raised"

\* C4: a disconnect call for a connection that is no longer registered under
\* its room returns without error and leaves the registry unchanged.
C4_DisconnectIdempotent ==
  [][\A c \in Conns :
       (ws[c].state = "open" /\ ws'[c].state # "open"
          /\ c \notin Registered(ws[c].room))
         => (ws'[c].state = "closed"
               /\ active_connections' = active_connections)]_vars

\* C5: a broadcast delivers to exactly the connections registered when it
\* started, even when connect or disconnect run while it is suspended in a
\* send (stated for broadcasts none of whose own sends raised).
C5_SnapshotSemantics ==
  \A t \in Tasks :
    (task[t].pc = "returned" /\ task[t].failed = {})
      => Range(task[t].attempted) = Range(task[t].snapshot)

\* The places <<room_id, index>> where connection c sits in the registry.
Registrations(c) ==
  {p \in UNION {{<<r, i>> : i \in DOMAIN active_connections[r]} :
                  r \in DOMAIN active_connections} :
     active_connections[p[1]][p[2]] = c}

\* The connections on which some broadcast's send_text has raised.
SendFailed == UNION {task[t].failed : t \in Tasks}

C18_NoEmptyRoomList ==
  \A r \in DOMAIN active_connections : active_connections[r] # <<>>

\* C18 witness: a broadcast pruned the last connection of its room, whose key
\* is gone, while another room still has connections.
C18_Witness ==
  \E t \in Tasks :
    /\ task[t].failed # {}
    /\ task[t].room \notin DOMAIN active_connections
    /\ DOMAIN active_connections # {}

\* ---------------------------------------------------------- room claims

\* C15: join_room never answers 500 "Room key distribution failed": whenever
\* a non-member joins an existing room, a KeyDistribution record of that room
\* owned by another user exists.
C15_JoinNeverFailsDistribution ==
  ~(response.op = "join_room" /\ response.status = 500)
\* -------------------------------------------------------- crypto claims
\* C11: generate_kyber_keypair and encapsulate_key never hand back random
\* bytes in place of a key pair or a shared secret, and a call made while
\* the KEM is unavailable or while oqs raises ends in an error.
C11_KemNeverDowngrades ==
  kem_call.op \in {"generate_kyber_keypair", "encapsulate_key"} =>
    /\ kem_call.value = <<>> \/ kem_call.value[1].kind # "urandom"
    /\ (~module_globals["KEM_AVAILABLE"] \/ kem_call.oqs_raises)
         => kem_call.raised

\* C11 witness: encapsulate_key was called in a process that could not
\* import oqs, and the call ended in an error.
C11_Witness ==
  /\ module_globals # <<>> /\ ~module_globals["KEM_AVAILABLE"]
  /\ kem_call.op = "encapsulate_key" /\ kem_call.raised

\* C16: every call of generate_kyber_keypair, encapsulate_key and
\* decapsulate_key returns a value; none ends in an error.
C16_KemCallsAlwaysReturn ==
  kem_call.op # "none" => ~kem_call.raised /\ kem_call.value # <<>>

\* C12: an untouched blob of any wrap operation, given to any unwrap
\* operation with the password it was wrapped under, comes back as the
\* private key that was wrapped.
C12_WrapUnwrapRoundTrip ==
  (unwrap_call.fn # "none" /\ unwrap_call.tamper = "intact"
     /\ unwrap_call.pw_ok)
    => ~unwrap_call.raised /\ unwrap_call.round_trip

\* An unwrap call that was given a wrong password or a damaged blob.
BadUnwrap(call) ==
  call.fn # "none" /\ (call.tamper # "intact" \/ ~call.pw_ok)

\* C13: an unwrap call given a wrong password, a corrupted blob or a
\* truncated blob returns no bytes and raises, and any two such calls of one
\* function raise the same error with the same text.
C13_UnwrapErrorsIndistinguishable ==
  [][/\ BadUnwrap(unwrap_call')
        => unwrap_call'.raised /\ unwrap_call'.value = <<>>
     /\ (BadUnwrap(unwrap_call) /\ BadUnwrap(unwrap_call')
           /\ unwrap_call.fn = unwrap_call'.fn)
        => /\ unwrap_call.error = unwrap_call'.error
           /\ unwrap_call.message = unwrap_call'.message]_vars
====
